---- MODULE Spec2Model ----
(***************************************************************************)
(* The diff/patch engine: DiffUtils (src/src/utils/diff-utils.ts) and the  *)
(* apply_patch tool (src/src/tools/code/apply-patch.ts).                   *)
(*                                                                         *)
(* Texts are strings; a text is cut into lines at "\n" and lines are put   *)
(* together again with "\n" exactly as the code does.  A file system maps  *)
(* a path (relative to base_path) to a file, a directory or nothing.       *)
(***************************************************************************)
EXTENDS Integers, Sequences, FiniteSets, TLC

VARIABLES
  fs,        \* path -> [kind : {"file","dir","none"}, content : STRING]
  fs0,       \* the file system when the apply_patch call started
  gen,       \* the generate request: [original, modified, contextLines]
  patch,     \* the patch text handed to apply_patch
  params,    \* [reverse, dry_run, backup, fuzzy] of the call
  pc,        \* position of the apply_patch call
  loc,       \* the call's locals
  io,        \* the file-system effects of the call, in order
  result,    \* the ToolResult the call returned
  mention,   \* the input of parseAtMentions and the mentions it returned
  chat       \* the agent: its conversation, the model's replies, the requests sent

vars == <<fs, fs0, gen, patch, params, pc, loc, io, result, mention, chat>>

\* what the file tools leave alone
others == <<mention, chat>>

(***************************************************************************)
(* Strings                                                                 *)
(***************************************************************************)
startsWith(s, p) == Len(s) >= Len(p) /\ SubSeq(s, 1, Len(p)) = p

\* s.substring(n), n counted from 0
substring(s, n) == IF n >= Len(s) THEN "" ELSE SubSeq(s, n + 1, Len(s))

charAt(s, i) == SubSeq(s, i, i)

IsSpace(c) == c \in {" ", "\t", "\n"}

RECURSIVE trimStart(_)
trimStart(s) ==
  IF Len(s) > 0 /\ IsSpace(charAt(s, 1)) THEN trimStart(substring(s, 1)) ELSE s

RECURSIVE trimEnd(_)
trimEnd(s) ==
  IF Len(s) > 0 /\ IsSpace(charAt(s, Len(s)))
    THEN trimEnd(SubSeq(s, 1, Len(s) - 1))
    ELSE s

trim(s) == trimEnd(trimStart(s))

\* text.split('\n'): always at least one line
RECURSIVE splitFrom(_, _, _, _)
splitFrom(s, i, cur, acc) ==
  IF i > Len(s) THEN Append(acc, cur)
  ELSE IF charAt(s, i) = "\n" THEN splitFrom(s, i + 1, "", Append(acc, cur))
  ELSE splitFrom(s, i + 1, cur \o charAt(s, i), acc)

split(s) == splitFrom(s, 1, "", <<>>)

\* lines.join('\n')
RECURSIVE join(_)
join(ls) ==
  IF Len(ls) = 0 THEN ""
  ELSE IF Len(ls) = 1 THEN ls[1]
  ELSE ls[1] \o "\n" \o join(Tail(ls))

IsDigit(c) == c \in {"0", "1", "2", "3", "4", "5", "6", "7", "8", "9"}

DigitVal(c) ==
  CASE c = "0" -> 0 [] c = "1" -> 1 [] c = "2" -> 2 [] c = "3" -> 3
    [] c = "4" -> 4 [] c = "5" -> 5 [] c = "6" -> 6 [] c = "7" -> 7
    [] c = "8" -> 8 [] c = "9" -> 9

\* parseInt(s, 10) of a string of digits
RECURSIVE parseInt(_)
parseInt(s) ==
  IF Len(s) = 0 THEN 0
  ELSE parseInt(SubSeq(s, 1, Len(s) - 1)) * 10 + DigitVal(charAt(s, Len(s)))

\* the position after the longest run of digits that starts at i (\d+ is greedy)
RECURSIVE digitsEnd(_, _)
digitsEnd(s, i) ==
  IF i <= Len(s) /\ IsDigit(charAt(s, i)) THEN digitsEnd(s, i + 1) ELSE i

litAt(s, i, lit) ==
  i + Len(lit) - 1 <= Len(s) /\ SubSeq(s, i, i + Len(lit) - 1) = lit

(***************************************************************************)
(* DiffUtils.parseDiff                                                     *)
(***************************************************************************)
NoHunk == [oldStart |-> 0, oldLines |-> 0, newStart |-> 0, newLines |-> 0, lines |-> <<>>]

DiffLine(t, c) == [type |-> t, content |-> c]

NoMatch == [ok |-> FALSE, oldStart |-> 0, oldLines |-> 0, newStart |-> 0, newLines |-> 0]

\* /@@ -(\d+),(\d+) \+(\d+),(\d+) @@/ tried at position p of the line
hunkHeaderAt(s, p) ==
  LET a1 == p + 4
      a2 == digitsEnd(s, a1)
      b1 == a2 + 1
      b2 == digitsEnd(s, b1)
      c1 == b2 + 2
      c2 == digitsEnd(s, c1)
      d1 == c2 + 1
      d2 == digitsEnd(s, d1)
  IN  IF /\ litAt(s, p, "@@ -") /\ a2 > a1
         /\ litAt(s, a2, ",")   /\ b2 > b1
         /\ litAt(s, b2, " +")  /\ c2 > c1
         /\ litAt(s, c2, ",")   /\ d2 > d1
         /\ litAt(s, d2, " @@")
        THEN [ok |-> TRUE,
              oldStart |-> parseInt(SubSeq(s, a1, a2 - 1)),
              oldLines |-> parseInt(SubSeq(s, b1, b2 - 1)),
              newStart |-> parseInt(SubSeq(s, c1, c2 - 1)),
              newLines |-> parseInt(SubSeq(s, d1, d2 - 1))]
        ELSE NoMatch

\* hunkHeaderMatch taking every line for a header
hunkHeaderMatch_AnyHeader(s) == [NoMatch EXCEPT !.ok = TRUE, !.oldStart = 1, !.newStart = 1]

\* line.match(...): the regular expression is not anchored, the leftmost match wins
hunkHeaderMatch(s) ==
  LET hits == {p \in 1..Len(s) : hunkHeaderAt(s, p).ok}
  IN  IF hits = {} THEN NoMatch
      ELSE hunkHeaderAt(s, CHOOSE p \in hits : \A q \in hits : p <= q)

pushLine(st, t, c) ==
  [st EXCEPT !.cur = [@ EXCEPT !.lines = Append(@, DiffLine(t, c))]]

\* one iteration of the loop over the lines of the diff text
parseLine(st, line) ==
  IF startsWith(line, "---") THEN [st EXCEPT !.oldFile = trim(substring(line, 4))]
  ELSE IF startsWith(line, "+++") THEN [st EXCEPT !.newFile = trim(substring(line, 4))]
  ELSE IF startsWith(line, "@@") THEN
    LET m == hunkHeaderMatch(line)
    IN  IF m.ok
          THEN [st EXCEPT
                  !.hunks = IF st.has THEN Append(@, st.cur) ELSE @,
                  !.has = TRUE,
                  !.cur = [oldStart |-> m.oldStart, oldLines |-> m.oldLines,
                           newStart |-> m.newStart, newLines |-> m.newLines,
                           lines |-> <<>>]]
          ELSE st
  ELSE IF st.has THEN
    IF startsWith(line, "+") THEN pushLine(st, "add", substring(line, 1))
    ELSE IF startsWith(line, "-") THEN pushLine(st, "remove", substring(line, 1))
    ELSE IF startsWith(line, " ") THEN pushLine(st, "context", substring(line, 1))
    ELSE st
  ELSE st

RECURSIVE parseLines(_, _, _)
parseLines(lines, i, st) ==
  IF i > Len(lines) THEN st ELSE parseLines(lines, i + 1, parseLine(st, lines[i]))

\* ok = FALSE stands for the null result
parseDiff(diffText) ==
  LET st == parseLines(split(diffText), 1,
                       [oldFile |-> "", newFile |-> "", hunks |-> <<>>,
                        has |-> FALSE, cur |-> NoHunk])
      hunks == IF st.has THEN Append(st.hunks, st.cur) ELSE st.hunks
  IN  IF Len(hunks) = 0
        THEN [ok |-> FALSE, oldFile |-> "", newFile |-> "", hunks |-> <<>>]
        ELSE [ok |-> TRUE, oldFile |-> st.oldFile, newFile |-> st.newFile, hunks |-> hunks]

(***************************************************************************)
(* DiffUtils.findChanges, groupIntoHunks, createUnifiedDiff                *)
(***************************************************************************)
\* Change with the two indices in each other's place
Change_Swapped(t, o, n) == [type |-> t, oldIdx |-> n, newIdx |-> o]

\* { type, oldIdx, newIdx }
Change(t, o, n) == [type |-> t, oldIdx |-> o, newIdx |-> n]

\* indices count from 0 as in the code; original[oldIdx] is original[oldIdx + 1] here
RECURSIVE findChangesFrom(_, _, _, _, _)
findChangesFrom(original, modified, oldIdx, newIdx, changes) ==
  IF ~(oldIdx < Len(original) \/ newIdx < Len(modified)) THEN changes
  ELSE IF oldIdx >= Len(original) THEN
    findChangesFrom(original, modified, oldIdx, newIdx + 1,
                    Append(changes, Change("add", oldIdx, newIdx)))
  ELSE IF newIdx >= Len(modified) THEN
    findChangesFrom(original, modified, oldIdx + 1, newIdx,
                    Append(changes, Change("remove", oldIdx, newIdx)))
  ELSE IF original[oldIdx + 1] = modified[newIdx + 1] THEN
    findChangesFrom(original, modified, oldIdx + 1, newIdx + 1,
                    Append(changes, Change("same", oldIdx, newIdx)))
  ELSE
    LET c1 == Append(changes, Change("remove", oldIdx, newIdx))
    IN  IF newIdx < Len(modified)
          THEN findChangesFrom(original, modified, oldIdx + 1, newIdx + 1,
                               Append(c1, Change("add", oldIdx + 1, newIdx)))
          ELSE findChangesFrom(original, modified, oldIdx + 1, newIdx, c1)

findChanges(original, modified) == findChangesFrom(original, modified, 0, 0, <<>>)

max(a, b) == IF a >= b THEN a ELSE b
min(a, b) == IF a <= b THEN a ELSE b

\* changes.slice(i + 1, i + contextLines + 1).some(c => c.type !== 'same'), i from 0
hasMoreChanges(changes, i, contextLines) ==
  \E k \in (i + 2)..min(i + contextLines + 1, Len(changes)) : changes[k].type # "same"

\* contextBefore without the loop of "Add context before"
contextBefore_None(original, oldStart, oldIdx) == <<>>

\* the context lines original[oldStart .. oldIdx - 1] put before the first change
contextBefore(original, oldStart, oldIdx) ==
  [j \in 1..(oldIdx - oldStart) |-> DiffLine("context", original[oldStart + j])]

\* one iteration of the loop over changes; i counts from 0
groupStep(st, changes, i, original, modified, contextLines) ==
  LET change == changes[i + 1]
  IN  IF change.type = "same" THEN
        IF st.has THEN
          LET h == [st.cur EXCEPT
                      !.lines = Append(@, DiffLine("context", original[change.oldIdx + 1]))]
          IN  IF ~hasMoreChanges(changes, i, contextLines)
                THEN [hunks |-> Append(st.hunks, h), has |-> FALSE, cur |-> NoHunk]
                ELSE [st EXCEPT !.cur = h]
        ELSE st
      ELSE
        LET oldStart == max(0, change.oldIdx - contextLines)
            newStart == max(0, change.newIdx - contextLines)
            opened == IF st.has THEN st.cur
                      ELSE [oldStart |-> oldStart + 1, oldLines |-> 0,
                            newStart |-> newStart + 1, newLines |-> 0,
                            lines |-> contextBefore(original, oldStart, change.oldIdx)]
            h == IF change.type = "remove"
                   THEN [opened EXCEPT
                           !.lines = Append(@, DiffLine("remove", original[change.oldIdx + 1])),
                           !.oldLines = @ + 1]
                   ELSE [opened EXCEPT
                           !.lines = Append(@, DiffLine("add", modified[change.newIdx + 1])),
                           !.newLines = @ + 1]
        IN  [st EXCEPT !.has = TRUE, !.cur = h]

RECURSIVE groupFrom(_, _, _, _, _, _)
groupFrom(st, changes, i, original, modified, contextLines) ==
  IF i >= Len(changes) THEN st
  ELSE groupFrom(groupStep(st, changes, i, original, modified, contextLines),
                 changes, i + 1, original, modified, contextLines)

countType(lines, t) == Cardinality({k \in 1..Len(lines) : lines[k].type = t})

\* addContextCount without hunk.newLines += contextCount
addContextCount_OldOnly(hunk) ==
  [hunk EXCEPT !.oldLines = @ + countType(hunk.lines, "context")]

\* "Calculate hunk sizes"
addContextCount(hunk) ==
  LET contextCount == countType(hunk.lines, "context")
  IN  [hunk EXCEPT !.oldLines = @ + contextCount, !.newLines = @ + contextCount]

groupIntoHunks(changes, original, modified, contextLines) ==
  LET st == groupFrom([hunks |-> <<>>, has |-> FALSE, cur |-> NoHunk],
                      changes, 0, original, modified, contextLines)
      hunks == IF st.has THEN Append(st.hunks, st.cur) ELSE st.hunks
  IN  [k \in 1..Len(hunks) |-> addContextCount(hunks[k])]

formatHeader(hunk) ==
  "@@ -" \o ToString(hunk.oldStart) \o "," \o ToString(hunk.oldLines)
    \o " +" \o ToString(hunk.newStart) \o "," \o ToString(hunk.newLines) \o " @@"

formatLine(line) ==
  IF line.type = "context" THEN " " \o line.content
  ELSE IF line.type = "remove" THEN "-" \o line.content
  ELSE "+" \o line.content

formatHunk(hunk) ==
  <<formatHeader(hunk)>> \o [k \in 1..Len(hunk.lines) |-> formatLine(hunk.lines[k])]

RECURSIVE formatHunks(_)
formatHunks(hunks) ==
  IF Len(hunks) = 0 THEN <<>> ELSE formatHunk(hunks[1]) \o formatHunks(Tail(hunks))

fileHeader(filename) == <<"--- a/" \o filename, "+++ b/" \o filename>>

createUnifiedDiff(original, modified, filename, contextLines) ==
  LET originalLines == split(original)
      modifiedLines == split(modified)
      changes == findChanges(originalLines, modifiedLines)
  IN  IF Len(changes) = 0 THEN ""
      ELSE join(fileHeader(filename)
                  \o formatHunks(groupIntoHunks(changes, originalLines,
                                                modifiedLines, contextLines)))

(***************************************************************************)
(* apply_patch: applyHunk, matchesAt                                       *)
(***************************************************************************)
searchRange == 50

matchesAt(lines, expected, startIndex) ==
  IF startIndex < 0 \/ startIndex + Len(expected) > Len(lines) THEN FALSE
  ELSE \A i \in 1..Len(expected) : lines[startIndex + i] = expected[i]

\* the contents of the lines of a hunk whose type is in types, in order
RECURSIVE pick(_, _)
pick(hlines, types) ==
  IF Len(hlines) = 0 THEN <<>>
  ELSE IF hlines[1].type \in types
    THEN <<hlines[1].content>> \o pick(Tail(hlines), types)
    ELSE pick(Tail(hlines), types)

expectedLines(hunk, reverse) ==
  pick(hunk.lines, IF reverse THEN {"add", "context"} ELSE {"remove", "context"})

newLines(hunk, reverse) ==
  pick(hunk.lines, IF reverse THEN {"remove", "context"} ELSE {"add", "context"})

\* result.splice(at, deleteCount, ...items), at counted from 0
splice(lines, at, deleteCount, items) ==
  SubSeq(lines, 1, at) \o items \o SubSeq(lines, at + deleteCount + 1, Len(lines))

\* the offsets at which the loop over -searchRange..searchRange finds a match
fuzzyHits(lines, expected, targetLine) ==
  {offset \in (0 - searchRange)..searchRange :
     targetLine + offset >= 0 /\ matchesAt(lines, expected, targetLine + offset)}

\* the loop runs offset upwards from -searchRange and returns at the first match
firstHit(hits) == CHOOSE o \in hits : \A q \in hits : o <= q

applyHunk(lines, hunk, reverse, fuzzy) ==
  LET targetLine == hunk.oldStart - 1
      expected == expectedLines(hunk, reverse)
      new == newLines(hunk, reverse)
      hits == fuzzyHits(lines, expected, targetLine)
  IN  IF matchesAt(lines, expected, targetLine)
        THEN [success |-> TRUE, at |-> targetLine,
              lines |-> splice(lines, targetLine, Len(expected), new)]
      ELSE IF fuzzy /\ hits # {}
        THEN [success |-> TRUE, at |-> targetLine + firstHit(hits),
              lines |-> splice(lines, targetLine + firstHit(hits), Len(expected), new)]
      ELSE [success |-> FALSE, at |-> 0 - 1, lines |-> lines]

\* hunkStep without the failCount++ of the else branch
hunkStep_DropsFailure(st, hunk, reverse, fuzzy) ==
  LET r == applyHunk(st.modifiedLines, hunk, reverse, fuzzy)
  IN  IF r.success
        THEN [modifiedLines |-> r.lines,
              successCount |-> st.successCount + 1,
              failCount |-> st.failCount,
              results |-> Append(st.results, [oldStart |-> hunk.oldStart, applied |-> TRUE, at |-> r.at])]
        ELSE [st EXCEPT
                !.results = Append(@, [oldStart |-> hunk.oldStart, applied |-> FALSE, at |-> r.at])]

\* one iteration of "for (const hunk of parsedDiff.hunks)"
hunkStep(st, hunk, reverse, fuzzy) ==
  LET r == applyHunk(st.modifiedLines, hunk, reverse, fuzzy)
  IN  IF r.success
        THEN [modifiedLines |-> r.lines,
              successCount |-> st.successCount + 1,
              failCount |-> st.failCount,
              results |-> Append(st.results, [oldStart |-> hunk.oldStart, applied |-> TRUE, at |-> r.at])]
        ELSE [modifiedLines |-> st.modifiedLines,
              successCount |-> st.successCount,
              failCount |-> st.failCount + 1,
              results |-> Append(st.results, [oldStart |-> hunk.oldStart, applied |-> FALSE, at |-> r.at])]

RECURSIVE applyHunks(_, _, _, _, _)
applyHunks(st, hunks, k, reverse, fuzzy) ==
  IF k > Len(hunks) THEN st
  ELSE applyHunks(hunkStep(st, hunks[k], reverse, fuzzy), hunks, k + 1, reverse, fuzzy)

(***************************************************************************)
(* The file system and the inputs                                          *)
(***************************************************************************)
DefaultContextLines == 3

MaxLines == 4
MaxGenLines == 3

File(c) == [kind |-> "file", content |-> c]
Dir == [kind |-> "dir", content |-> ""]
Missing == [kind |-> "none", content |-> ""]

lookup(f, path) == IF path \in DOMAIN f THEN f[path] ELSE Missing

\* existsSync(path)
existsSync(f, path) == lookup(f, path).kind # "none"

\* fs with path holding v
put(f, path, v) == [q \in DOMAIN f \cup {path} |-> IF q = path THEN v ELSE f[q]]

\* newFile.replace(/^[ab]\//, ''), resolved against base_path: "" is base_path itself
targetPath(newFile) ==
  IF startsWith(newFile, "a/") \/ startsWith(newFile, "b/") THEN substring(newFile, 2)
  ELSE newFile

backupPathOf(filePath) == filePath \o ".bak"

TargetName == "f"

\* the sequences of 1..n elements of S
SeqsUpTo(S, n) == UNION {[1..k -> S] : k \in 1..n}

Contents == {"a", "b"}
Texts == {join(ls) : ls \in SeqsUpTo(Contents, MaxLines)}

GenContents == {"a", "b", "--", "++"}
GenTexts == {join(ls) : ls \in SeqsUpTo(GenContents, MaxGenLines)}
ContextSizes == {0, DefaultContextLines}

\* hunks written by hand: replace a "b" by an "a", insert a "b" after an "a", delete an "a"
Bodies ==
  { <<DiffLine("remove", "b"), DiffLine("add", "a")>>,
    <<DiffLine("context", "a"), DiffLine("add", "b")>>,
    <<DiffLine("remove", "a")>> }

HandHunk(start, body) ==
  [oldStart |-> start,
   oldLines |-> countType(body, "context") + countType(body, "remove"),
   newStart |-> start,
   newLines |-> countType(body, "context") + countType(body, "add"),
   lines |-> body]

HandHunks == {HandHunk(s, b) : s \in 1..MaxLines, b \in Bodies}

HunkLists ==
  {<<h>> : h \in HandHunks}
    \cup {<<pr[1], pr[2]>> : pr \in {q \in HandHunks \X HandHunks : q[2].oldStart > q[1].oldStart}}

\* a line that starts with none of ' ', '-', '+': the empty line, a letter
JunkLines == {"", "x"}

\* the patch text of hs; with junk, that line is put after the first content line
PatchLines(hs) == fileHeader(TargetName) \o formatHunks(hs)

WithJunk(ls, junk) == SubSeq(ls, 1, 4) \o <<junk>> \o SubSeq(ls, 5, Len(ls))

HandPatches ==
  {join(PatchLines(hs)) : hs \in HunkLists}
    \cup {join(WithJunk(PatchLines(<<h>>), j)) : h \in HandHunks, j \in JunkLines}

Params == [reverse : BOOLEAN, dry_run : BOOLEAN, backup : BOOLEAN, fuzzy : BOOLEAN]
DefaultParams == [reverse |-> FALSE, dry_run |-> FALSE, backup |-> TRUE, fuzzy |-> TRUE]

NoGen == [original |-> "", modified |-> "", contextLines |-> DefaultContextLines]

NoLoc ==
  [parsedDiff |-> parseDiff(""), filePath |-> "", originalContent |-> "",
   modifiedLines |-> <<>>, successCount |-> 0, failCount |-> 0, results |-> <<>>,
   modifiedContent |-> "", previewDiff |-> ""]

NoResult ==
  [returned |-> FALSE, success |-> FALSE, error |-> "",
   successCount |-> 0, failCount |-> 0, hasPreview |-> FALSE, preview |-> ""]

\* no parseAtMentions call, no agent
NoMentions == [input |-> "", done |-> FALSE, mentions |-> <<>>]
NoChat ==
  [messages |-> <<>>, iterationCount |-> 0, continueLoop |-> FALSE,
   sent |-> <<>>, requests |-> 0, response |-> [content |-> <<>>, stop_reason |-> ""],
   toolUses |-> <<>>, toolResults |-> <<>>, calls |-> 0, lastId |-> 0]

\* { success: false, error }
Failure(e) == [NoResult EXCEPT !.returned = TRUE, !.error = e]

\* { success: true, output }: the output names both counts and ends with the preview
Success(l) ==
  [returned |-> TRUE, success |-> TRUE, error |-> "",
   successCount |-> l.successCount, failCount |-> l.failCount,
   hasPreview |-> TRUE, preview |-> l.previewDiff]

\* if (backup && !dry_run)
wantsBackup_Inverted(p) == p.backup /\ p.dry_run
wantsBackup_Always(p) == p.backup
wantsBackup(p) == p.backup /\ ~p.dry_run

\* if (failCount > 0 && !fuzzy)
strictReject_OffByOne(failCount, fuzzy) == failCount > 1 /\ ~fuzzy
strictReject_IgnoresFuzzy(failCount, fuzzy) == failCount > 0
strictReject(failCount, fuzzy) == failCount > 0 /\ ~fuzzy

\* if (!dry_run)
wantsWrite(p) == ~p.dry_run

(***************************************************************************)
(* The apply_patch call, cut at its awaits: readFile, copyFile, writeFile  *)
(***************************************************************************)
\* from the entry to the end of readFile
\* (\E over a one-element set binds the value once, as the code's const does)
ApplyPatch ==
  /\ pc = "idle"
  /\ \E parsedDiff \in {parseDiff(patch)} :
     \E filePath \in {targetPath(parsedDiff.newFile)} :
     \E file \in {lookup(fs, filePath)} :
         IF ~parsedDiff.ok THEN
           /\ result' = Failure("Invalid patch format")
           /\ pc' = "done"
           /\ loc' = loc
         ELSE IF ~existsSync(fs, filePath) THEN
           /\ result' = Failure("File not found")
           /\ pc' = "done"
           /\ loc' = [loc EXCEPT !.parsedDiff = parsedDiff, !.filePath = filePath]
         ELSE IF file.kind = "dir" THEN  \* readFile throws, the catch returns the failure
           /\ result' = Failure("EISDIR")
           /\ pc' = "done"
           /\ loc' = [loc EXCEPT !.parsedDiff = parsedDiff, !.filePath = filePath]
         ELSE
           /\ result' = result
           /\ pc' = IF wantsBackup(params) THEN "backup" ELSE "hunks"
           /\ loc' = [loc EXCEPT !.parsedDiff = parsedDiff, !.filePath = filePath,
                                 !.originalContent = file.content,
                                 !.modifiedLines = split(file.content)]
  /\ fs0' = fs
  /\ UNCHANGED <<fs, gen, patch, params, io>>
  /\ UNCHANGED others

\* await copyFile(filePath, backupPath)
CopyBackup ==
  /\ pc = "backup"
  /\ fs' = put(fs, backupPathOf(loc.filePath), lookup(fs, loc.filePath))
  /\ io' = Append(io, [op |-> "copyFile", path |-> backupPathOf(loc.filePath)])
  /\ pc' = "hunks"
  /\ UNCHANGED <<fs0, gen, patch, params, loc, result>>
  /\ UNCHANGED others

\* the loop over the hunks, the strict-mode return, the join and the preview
ApplyHunks ==
  /\ pc = "hunks"
  /\ \E st \in {applyHunks([modifiedLines |-> loc.modifiedLines, successCount |-> 0,
                            failCount |-> 0, results |-> <<>>],
                           loc.parsedDiff.hunks, 1, params.reverse, params.fuzzy)} :
     \E modifiedContent \in {join(st.modifiedLines)} :
     \E counted \in {[loc EXCEPT !.modifiedLines = st.modifiedLines,
                                 !.successCount = st.successCount,
                                 !.failCount = st.failCount,
                                 !.results = st.results]} :
     \E previewed \in {[counted EXCEPT
                          !.modifiedContent = modifiedContent,
                          !.previewDiff = createUnifiedDiff(loc.originalContent, modifiedContent,
                                                            loc.parsedDiff.newFile,
                                                            DefaultContextLines)]} :
         IF strictReject(st.failCount, params.fuzzy) THEN
           /\ loc' = counted
           /\ result' = Failure("Failed to apply hunks")
           /\ pc' = "done"
         ELSE
           /\ loc' = previewed
           /\ IF wantsWrite(params)
                THEN pc' = "write" /\ result' = result
                ELSE pc' = "done" /\ result' = Success(previewed)
  /\ UNCHANGED <<fs, fs0, gen, patch, params, io>>
  /\ UNCHANGED others

\* await writeFile(filePath, modifiedContent), then the return
WriteFile ==
  /\ pc = "write"
  /\ fs' = put(fs, loc.filePath, File(loc.modifiedContent))
  /\ io' = Append(io, [op |-> "writeFile", path |-> loc.filePath])
  /\ result' = Success(loc)
  /\ pc' = "done"
  /\ UNCHANGED <<fs0, gen, patch, params, loc>>
  /\ UNCHANGED others

\* generate_patch: the patch text of (original, modified), handed on to apply_patch
GeneratePatch ==
  /\ pc = "generate"
  /\ patch' = createUnifiedDiff(gen.original, gen.modified, TargetName, gen.contextLines)
  /\ pc' = "idle"
  /\ UNCHANGED <<fs, fs0, gen, params, loc, io, result>>
  /\ UNCHANGED others

InitFs(content, bak) ==
  [q \in {"", TargetName, backupPathOf(TargetName)} |->
     IF q = "" THEN Dir ELSE IF q = TargetName THEN File(content) ELSE bak]

\* apply_patch called with a patch written by hand on any file
Init ==
  /\ \E t \in Texts, bak \in {Missing, File("old")} : fs = InitFs(t, bak)
  /\ fs0 = fs
  /\ gen = NoGen
  /\ patch \in HandPatches
  /\ params \in Params
  /\ pc = "idle"
  /\ loc = NoLoc
  /\ io = <<>>
  /\ result = NoResult
  /\ mention = NoMentions
  /\ chat = NoChat

Next == ApplyPatch \/ CopyBackup \/ ApplyHunks \/ WriteFile

Spec == Init /\ [][Next]_vars

\* a patch generated from (original, modified), applied with the default options
\* to the original, or in reverse to the modified text
InitGen ==
  /\ gen \in [original : GenTexts, modified : GenTexts, contextLines : ContextSizes]
  /\ params \in {[DefaultParams EXCEPT !.reverse = r] : r \in BOOLEAN}
  /\ fs = InitFs(IF params.reverse THEN gen.modified ELSE gen.original, Missing)
  /\ fs0 = fs
  /\ patch = ""
  /\ pc = "generate"
  /\ loc = NoLoc
  /\ io = <<>>
  /\ result = NoResult
  /\ mention = NoMentions
  /\ chat = NoChat

NextGen == GeneratePatch \/ ApplyPatch \/ CopyBackup \/ ApplyHunks \/ WriteFile

SpecGen == InitGen /\ [][NextGen]_vars

\* generation over longer texts of two line contents and small context sizes,
\* the patch applied with the default options to the original
MaxDiffLines == 5
DiffTexts == {join(ls) : ls \in SeqsUpTo(Contents, MaxDiffLines)}
DiffContextSizes == {0, 1, 2}

InitDiff ==
  /\ gen \in [original : DiffTexts, modified : DiffTexts, contextLines : DiffContextSizes]
  /\ params = DefaultParams
  /\ fs = InitFs(gen.original, Missing)
  /\ fs0 = fs
  /\ patch = ""
  /\ pc = "generate"
  /\ loc = NoLoc
  /\ io = <<>>
  /\ result = NoResult
  /\ mention = NoMentions
  /\ chat = NoChat

SpecDiff == InitDiff /\ [][NextGen]_vars

\* lines that start with "@@" and that the regular expression does not match
BadHeaders == {"@@ -2 +2 @@", "@@ -x,1 +2,1 @@"}

\* the content lines of a hunk, without its header
bodyLines(hunk) == Tail(formatHunk(hunk))

\* patch texts without any hunk header the parser accepts
HeaderlessPatches ==
  {"", join(fileHeader(TargetName))}
    \cup {join(fileHeader(TargetName) \o <<bad>> \o bodyLines(h)) :
            bad \in BadHeaders, h \in {HandHunk(1, b) : b \in Bodies}}

\* a good hunk, then a header the parser does not accept, then content lines
BadHeaderPatches ==
  {join(PatchLines(<<hs[1]>>) \o <<bad>> \o bodyLines(hs[2])) :
     bad \in BadHeaders, hs \in {l \in HunkLists : Len(l) = 2 /\ l[1].oldStart = 1}}

\* two hunks listed in descending oldStart order
DescendingPatches ==
  {join(PatchLines(<<hs[2], hs[1]>>)) : hs \in {l \in HunkLists : Len(l) = 2}}

OddPatches == HeaderlessPatches \cup BadHeaderPatches \cup DescendingPatches

\* apply_patch called with a malformed or unordered patch on any file
InitOdd ==
  /\ \E t \in Texts : fs = InitFs(t, Missing)
  /\ fs0 = fs
  /\ gen = NoGen
  /\ patch \in OddPatches
  /\ params \in Params
  /\ pc = "idle"
  /\ loc = NoLoc
  /\ io = <<>>
  /\ result = NoResult
  /\ mention = NoMentions
  /\ chat = NoChat

SpecOdd == InitOdd /\ [][Next]_vars

(***************************************************************************)
(* Claims                                                                  *)
(***************************************************************************)
Done == pc = "done"

target == lookup(fs, TargetName)
backupFile == lookup(fs, backupPathOf(TargetName))

\* C1: generating a patch from (original, modified) with the default 3 context
\* lines and applying it with the default options to a file holding original
\* leaves the file holding exactly modified, for every pair of texts.
C1_RoundTrip ==
  (Done /\ ~params.reverse /\ gen.contextLines = DefaultContextLines)
    => target = File(gen.modified)

\* C2: applying a generated patch with reverse = true to a file holding
\* modified leaves the file holding exactly original.
C2_ReverseRoundTrip ==
  (Done /\ params.reverse) => target = File(gen.original)

\* the texts none of whose lines the parser takes for a file header
Plain(text) == \A k \in 1..Len(split(text)) :
                 ~startsWith(split(text)[k], "--") /\ ~startsWith(split(text)[k], "++")

\* the round trips hold on texts without lines that start with "--" or "++"
PlainRoundTrip ==
  (Done /\ Plain(gen.original) /\ Plain(gen.modified))
    => target = File(IF params.reverse THEN gen.original ELSE gen.modified)

(***************************************************************************)
(* Claims about one apply_patch call (Spec)                                *)
(***************************************************************************)
hunksOf == loc.parsedDiff.hunks
originalLines == split(loc.originalContent)
wrote == \E k \in 1..Len(io) : io[k].op = "writeFile"
copied == \E k \in 1..Len(io) : io[k].op = "copyFile"
\* the loop over the hunks has run
Tried == Len(loc.results) > 0

\* C3: with fuzzy = false, if at least one hunk did not match at the position
\* the call tried it at, the call returns a failure and the target holds what it
\* held before the call, also when other hunks of the patch did match.
C3_StrictRejection ==
  (Done /\ ~params.fuzzy /\ \E k \in 1..Len(loc.results) : ~loc.results[k].applied)
    => /\ result.returned /\ ~result.success
       /\ ~wrote
       /\ target = lookup(fs0, TargetName)

C3_Witness ==
  /\ Done /\ ~params.fuzzy /\ ~params.dry_run
  /\ \E k \in 1..Len(loc.results) : ~loc.results[k].applied
  /\ \E k \in 1..Len(loc.results) : loc.results[k].applied
  /\ ~result.success

abs(n) == IF n < 0 THEN 0 - n ELSE n

\* of the offsets in hits, the one with the smallest absolute value, the negative
\* one of two with the same absolute value
nearest(hits) ==
  CHOOSE o \in hits : \A q \in hits : abs(o) < abs(q) \/ (abs(o) = abs(q) /\ o <= q)

\* C4: when the exact match at the candidate position fails and fuzzy is on, the
\* hunk is applied at the matching position of the window with the smallest
\* absolute offset, the earlier one on a tie (stated for the first hunk of the
\* patch, whose candidate position is oldStart - 1 in the file as read, and
\* for hunks that expect at least one line).
C4_NearestOffsetFirst ==
  (Tried /\ params.fuzzy /\ loc.results[1].applied)
    => LET targetLine == hunksOf[1].oldStart - 1
           expected == expectedLines(hunksOf[1], params.reverse)
           hits == fuzzyHits(originalLines, expected, targetLine)
       IN  (Len(expected) > 0 /\ ~matchesAt(originalLines, expected, targetLine))
             => loc.results[1].at = targetLine + nearest(hits)

\* the sum of newLines.length - expectedLines.length over the hunks before hunk k
RECURSIVE netDelta(_, _, _)
netDelta(hunks, k, reverse) ==
  IF k <= 1 THEN 0
  ELSE netDelta(hunks, k - 1, reverse)
         + Len(newLines(hunks[k - 1], reverse)) - Len(expectedLines(hunks[k - 1], reverse))

\* C5: a patch each of whose hunks matches the file as read exactly at its
\* oldStart applies completely with fuzzy = false, each hunk at oldStart - 1 plus
\* the net number of lines the hunks before it added.
C5_RunningOffset ==
  (Done /\ ~params.fuzzy /\ ~params.reverse /\ loc.parsedDiff.ok /\ loc.filePath = TargetName
     /\ \A k \in 1..Len(hunksOf) :
          matchesAt(originalLines, expectedLines(hunksOf[k], FALSE), hunksOf[k].oldStart - 1))
    => /\ result.success
       /\ \A k \in 1..Len(hunksOf) :
            /\ loc.results[k].applied
            /\ loc.results[k].at = hunksOf[k].oldStart - 1 + netDelta(hunksOf, k, FALSE)

\* hunk k finds its expected lines nowhere in the window, in the lines it is tried on
noMatch(lines, hunk) ==
  /\ ~matchesAt(lines, expectedLines(hunk, params.reverse), hunk.oldStart - 1)
  /\ fuzzyHits(lines, expectedLines(hunk, params.reverse), hunk.oldStart - 1) = {}

\* lines with the replacement of hunk made at some place of the window where it matches
replacedBy(lines, hunk) ==
  {splice(lines, hunk.oldStart - 1 + o, Len(expectedLines(hunk, params.reverse)),
          newLines(hunk, params.reverse)) :
     o \in fuzzyHits(lines, expectedLines(hunk, params.reverse), hunk.oldStart - 1)}

\* C6: with fuzzy = true and a two-hunk patch of which exactly one hunk finds
\* its expected lines nowhere in the window, the call succeeds, reports one
\* applied and one failed hunk, and the content it writes is the original with
\* the other hunk's replacement alone; the two counts always add up to the
\* number of hunks.
onlyApplied(hunk) ==
  /\ result.success /\ result.successCount = 1 /\ result.failCount = 1
  /\ loc.modifiedContent \in {join(w) : w \in replacedBy(originalLines, hunk)}
  /\ (wantsWrite(params) => target = File(loc.modifiedContent))

C6_PartialApply ==
  /\ (Tried => loc.successCount + loc.failCount = Len(hunksOf))
  /\ ((Done /\ result.success) => result.successCount + result.failCount = Len(hunksOf))
  /\ ((Done /\ Tried /\ params.fuzzy /\ Len(hunksOf) = 2) =>
        /\ (noMatch(originalLines, hunksOf[1]) /\ ~noMatch(originalLines, hunksOf[2]))
             => onlyApplied(hunksOf[2])
        /\ (/\ ~noMatch(originalLines, hunksOf[1])
            /\ \A w \in replacedBy(originalLines, hunksOf[1]) : noMatch(w, hunksOf[2]))
             => onlyApplied(hunksOf[1]))

C6_Witness ==
  /\ Done /\ params.fuzzy /\ Len(hunksOf) = 2 /\ ~params.dry_run
  /\ result.success /\ result.successCount = 1 /\ result.failCount = 1
  /\ target # lookup(fs0, TargetName)

\* C7: the target is written only when at least one hunk applied and dry_run is
\* false; a call in which every hunk conflicts writes nothing.
C7_WriteOnlyIfApplied ==
  wrote => (loc.successCount >= 1 /\ ~params.dry_run)

\* the call went on to the end: it was not rejected
Completed == Done /\ result.success

\* C8: with dry_run = true the call leaves the target and the .bak path as they
\* were, whatever the patch and the other options: no backup copy, no write;
\* a call that runs to the end still returns both counts and the preview of the
\* result it would have written.
C8_DryRunPersistsNothing ==
  params.dry_run =>
    /\ fs = fs0 /\ io = <<>>
    /\ pc \notin {"backup", "write"}
    /\ Completed =>
         /\ result.hasPreview
         /\ result.successCount + result.failCount = Len(hunksOf)
         /\ result.successCount = Cardinality({k \in 1..Len(loc.results) : loc.results[k].applied})
         /\ result.preview = createUnifiedDiff(loc.originalContent, join(loc.modifiedLines),
                                               loc.parsedDiff.newFile, DefaultContextLines)

C8_Witness ==
  /\ params.dry_run /\ params.backup /\ Completed
  /\ result.successCount >= 1
  /\ loc.modifiedContent # loc.originalContent
  /\ backupFile = File("old")

\* C9: when backup is set and the call writes the target, the backup copy is
\* made exactly once, before the write, and the .bak file then holds the
\* content the target had when the call started.
C9_BackupOrdering ==
  (params.backup /\ wrote) =>
    /\ io = <<[op |-> "copyFile", path |-> backupPathOf(loc.filePath)],
              [op |-> "writeFile", path |-> loc.filePath]>>
    /\ lookup(fs, backupPathOf(loc.filePath)) = lookup(fs0, loc.filePath)

C9_Witness ==
  /\ Done /\ params.backup /\ wrote
  /\ target # lookup(fs0, TargetName)
  /\ lookup(fs0, backupPathOf(TargetName)) = File("old")
  /\ backupFile = lookup(fs0, TargetName)

\* the text has, after a hunk header, a line that starts with none of ' ', '-', '+'
\* (and is no hunk header itself)
hasUnprefixedLine(text) ==
  LET ls == split(text)
  IN  \E j \in 1..Len(ls) : \E k \in (j + 1)..Len(ls) :
        /\ startsWith(ls[j], "@@") /\ hunkHeaderMatch(ls[j]).ok
        /\ ~startsWith(ls[k], " ") /\ ~startsWith(ls[k], "-")
        /\ ~startsWith(ls[k], "+") /\ ~startsWith(ls[k], "@@")

\* C10: a patch with such a line does not parse: parseDiff returns nothing and
\* apply_patch reports an invalid patch format instead of applying the rest.
C10_UnprefixedLineRejected ==
  (hasUnprefixedLine(patch) /\ pc # "idle")
    => (Done /\ ~result.success /\ result.error = "Invalid patch format" /\ ~wrote)

(***************************************************************************)
(* Claims about malformed and unordered patches (SpecOdd)                  *)
(***************************************************************************)
\* the line is '@@ -a,b +c,d @@' with four numbers, possibly with text around it
wellFormedHeader(line) ==
  startsWith(line, "@@") /\ \E p \in 1..Len(line) : hunkHeaderAt(line, p).ok

\* the text has a line that starts with "@@" and is no such header
hasMalformedHeader(text) ==
  \E ls \in {split(text)} : \E k \in 1..Len(ls) :
    startsWith(ls[k], "@@") /\ ~wellFormedHeader(ls[k])

\* C11: a patch with a line that starts with "@@" and cannot be parsed as
\* '@@ -a,b +c,d @@' does not parse, also when it has well-formed hunk headers
\* too: apply_patch reports an invalid patch format, and the content lines after
\* the malformed header are not added to the hunk before it.
C11_MalformedHeaderRejected ==
  (pc # "idle" /\ hasMalformedHeader(patch))
    => /\ ~parseDiff(patch).ok
       /\ Done /\ ~result.success /\ result.error = "Invalid patch format" /\ ~wrote

\* the text has no hunk header the parser accepts
noWellFormedHeader(text) ==
  \A ls \in {split(text)} : \A k \in 1..Len(ls) : ~wellFormedHeader(ls[k])

\* C12: a patch without any well-formed hunk header yields no parse result, and
\* apply_patch returns the failure 'Invalid patch format' at once: no file is
\* read, copied or written.
C12_NoHeaderRejected ==
  (pc # "idle" /\ noWellFormedHeader(patch))
    => /\ ~parseDiff(patch).ok
       /\ Done /\ result = Failure("Invalid patch format")
       /\ loc = NoLoc /\ io = <<>> /\ fs = fs0

C12_Witness ==
  /\ Done /\ noWellFormedHeader(patch) /\ hasMalformedHeader(patch)
  /\ params.backup /\ ~params.dry_run
  /\ existsSync(fs, TargetName)
  /\ result.error = "Invalid patch format"

(***************************************************************************)
(* Claims about generation (SpecGen, SpecDiff)                             *)
(***************************************************************************)
genOriginal == split(gen.original)
genModified == split(gen.modified)
changesOf == findChanges(genOriginal, genModified)
generatedHunks == groupIntoHunks(changesOf, genOriginal, genModified, gen.contextLines)
Generated == pc # "generate"

\* C13: parsing the text the formatter emits for a list of hunks gives the same
\* hunks back, whatever the contents of their lines: as many hunks, the same
\* four numbers and the same (type, content) lines in the same order in each.
C13_CodecRoundTrip ==
  Generated =>
    \A hs \in {generatedHunks} :
      Len(hs) > 0 => (parseDiff(patch).ok /\ parseDiff(patch).hunks = hs)

\* the codec round trip holds on texts without lines that start with "--" or "++"
PlainCodecRoundTrip ==
  (Generated /\ Plain(gen.original) /\ Plain(gen.modified))
    => \A hs \in {generatedHunks} :
         Len(hs) > 0 => (parseDiff(patch).ok /\ parseDiff(patch).hunks = hs)

\* the ops of the given types, in order
opsOf(changes, types) == SelectSeq(changes, LAMBDA c : c.type \in types)

\* C14: the ops of findChanges rebuild both inputs: the same and remove ops, in
\* order, stand for lines 0, 1, ... of the original (oldIdx), the same and add
\* ops for lines 0, 1, ... of the modified text (newIdx), and a same op joins
\* two equal lines.
C14_OpsReconstructInputs ==
  \A ch \in {changesOf} : \A o \in {genOriginal} : \A m \in {genModified} :
    \A olds \in {opsOf(ch, {"same", "remove"})} : \A news \in {opsOf(ch, {"same", "add"})} :
      /\ Len(olds) = Len(o) /\ \A k \in 1..Len(olds) : olds[k].oldIdx = k - 1
      /\ Len(news) = Len(m) /\ \A k \in 1..Len(news) : news[k].newIdx = k - 1
      /\ [k \in 1..Len(olds) |-> o[olds[k].oldIdx + 1]] = o
      /\ [k \in 1..Len(news) |-> m[news[k].newIdx + 1]] = m
      /\ \A k \in 1..Len(ch) :
           ch[k].type = "same" => o[ch[k].oldIdx + 1] = m[ch[k].newIdx + 1]

C14_Witness ==
  /\ Generated
  /\ \E i, j, k \in 1..Len(changesOf) :
       /\ i < j /\ j < k
       /\ changesOf[i].type = "same" /\ changesOf[j].type = "remove"
       /\ changesOf[k].type = "add" /\ changesOf[k].oldIdx # changesOf[k].newIdx
  /\ \E k \in 1..Len(changesOf) : changesOf[k].type = "add" /\ changesOf[k].oldIdx >= Len(genOriginal)

\* the length of a longest common subsequence of two sequences
RECURSIVE LCS(_, _)
LCS(a, b) ==
  IF Len(a) = 0 \/ Len(b) = 0 THEN 0
  ELSE IF Head(a) = Head(b) THEN 1 + LCS(Tail(a), Tail(b))
  ELSE max(LCS(Tail(a), b), LCS(a, Tail(b)))

\* C15: the edit script of findChanges is minimal: its add and remove ops are
\* len(original) + len(modified) - 2 * LCS(original, modified) in number.
C15_MinimalEditScript ==
  Len(opsOf(changesOf, {"add", "remove"}))
    = Len(genOriginal) + Len(genModified) - 2 * LCS(genOriginal, genModified)

\* the number of same ops in a row from position k on
RECURSIVE sameRun(_, _)
sameRun(changes, k) ==
  IF k > Len(changes) \/ changes[k].type # "same" THEN 0 ELSE 1 + sameRun(changes, k + 1)

\* the positions at which a run of unchanged lines between two change clusters starts
gapsOf(changes) ==
  {k \in 2..Len(changes) :
     /\ changes[k].type = "same" /\ changes[k - 1].type # "same"
     /\ k + sameRun(changes, k) <= Len(changes)}

\* the number of hunks when clusters merge over gaps of at most 2 * contextLines lines
mergedHunkCount(changes, contextLines) ==
  IF \A k \in 1..Len(changes) : changes[k].type = "same" THEN 0
  ELSE 1 + Cardinality({k \in gapsOf(changes) : sameRun(changes, k) > 2 * contextLines})

\* C16: with context size C, change clusters separated by at most 2 * C
\* unchanged lines come out in one hunk and clusters separated by more than 2 * C
\* unchanged lines in separate hunks: there is one hunk more than there are gaps
\* of more than 2 * C lines.
C16_HunkMerging ==
  \A ch \in {changesOf} :
    Len(generatedHunks) = mergedHunkCount(ch, gen.contextLines)

\* C17: in every generated hunk oldLines is the number of its context and remove
\* lines and newLines the number of its context and add lines, for every pair of
\* texts and every context size.
C17_CountInvariant ==
  \A hs \in {generatedHunks} : \A k \in 1..Len(hs) :
    /\ hs[k].oldLines = countType(hs[k].lines, "context") + countType(hs[k].lines, "remove")
    /\ hs[k].newLines = countType(hs[k].lines, "context") + countType(hs[k].lines, "add")

C17_Witness ==
  /\ Generated
  /\ \E k \in 1..Len(generatedHunks) :
       /\ countType(generatedHunks[k].lines, "context") >= 2
       /\ countType(generatedHunks[k].lines, "remove") >= 1
       /\ generatedHunks[k].newLines > generatedHunks[k].oldLines
       /\ patch = join(fileHeader(TargetName) \o formatHunks(generatedHunks))

\* the hunks applied to lines at their oldStart, the last hunk first
RECURSIVE rebuild(_, _, _)
rebuild(lines, hunks, k) ==
  IF k = 0 THEN lines
  ELSE rebuild(splice(lines, hunks[k].oldStart - 1, hunks[k].oldLines,
                      newLines(hunks[k], FALSE)),
               hunks, k - 1)

\* the hunks, placed at their oldStart, turn the original into the modified text
StartsRebuildModified ==
  \A hs \in {generatedHunks} : rebuild(genOriginal, hs, Len(hs)) = genModified

\* C18: the old lines of every generated hunk are the lines of the original from
\* line oldStart on and its new lines are the lines of the modified text from
\* line newStart on (lines counted from 1); the hunks of a diff are in ascending
\* oldStart order and their ranges [oldStart, oldStart + oldLines) do not overlap.
C18_HunkStarts ==
  \A hs \in {generatedHunks} :
    /\ \A k \in 1..Len(hs) :
         /\ hs[k].oldStart >= 1 /\ hs[k].newStart >= 1
         /\ hs[k].oldLines > 0 =>
              matchesAt(genOriginal, expectedLines(hs[k], FALSE), hs[k].oldStart - 1)
         /\ hs[k].newLines > 0 =>
              matchesAt(genModified, newLines(hs[k], FALSE), hs[k].newStart - 1)
    /\ \A k \in 1..(Len(hs) - 1) :
         /\ hs[k].oldStart < hs[k + 1].oldStart
         /\ hs[k].oldStart + hs[k].oldLines <= hs[k + 1].oldStart

C18_Witness ==
  /\ Generated
  /\ Len(generatedHunks) = 2
  /\ generatedHunks[1].lines[1].type = "context"
  /\ generatedHunks[2].lines[1].type = "context"
  /\ generatedHunks[1].oldStart + generatedHunks[1].oldLines = generatedHunks[2].oldStart

\* C19: a diff of a text against itself has no hunks and its patch text is
\* empty, without header lines too.
C19_NoOpGeneration ==
  (gen.original = gen.modified)
    => /\ Len(generatedHunks) = 0
       /\ Generated => patch = ""

(***************************************************************************)
(* The order of the hunks (SpecOdd)                                        *)
(***************************************************************************)
\* hunk put into a list that is ascending by oldStart, after the hunks with the same oldStart
RECURSIVE insertByOldStart(_, _)
insertByOldStart(hunks, hunk) ==
  IF Len(hunks) = 0 THEN <<hunk>>
  ELSE IF hunks[1].oldStart <= hunk.oldStart
    THEN <<hunks[1]>> \o insertByOldStart(Tail(hunks), hunk)
    ELSE <<hunk>> \o hunks

RECURSIVE sortByOldStart(_)
sortByOldStart(hunks) ==
  IF Len(hunks) = 0 THEN <<>>
  ELSE insertByOldStart(sortByOldStart(SubSeq(hunks, 1, Len(hunks) - 1)), hunks[Len(hunks)])

\* C20: the hunk list of a parsed patch is ascending by oldStart whatever the
\* order of the hunks in the text, and the call leaves the lines that the same
\* hunks listed in ascending order give.
C20_AscendingOrder ==
  loc.parsedDiff.ok =>
    /\ \A k \in 1..(Len(hunksOf) - 1) : hunksOf[k].oldStart <= hunksOf[k + 1].oldStart
    /\ Tried =>
         loc.modifiedLines =
           applyHunks([modifiedLines |-> originalLines, successCount |-> 0,
                       failCount |-> 0, results |-> <<>>],
                      sortByOldStart(hunksOf), 1, params.reverse, params.fuzzy).modifiedLines

(***************************************************************************)
(* DiffUtils.summarizeChanges                                              *)
(***************************************************************************)
\* the number of lines that start with mark and not with three of it
RECURSIVE countMarked(_, _, _)
countMarked(lines, mark, header) ==
  IF Len(lines) = 0 THEN 0
  ELSE (IF startsWith(lines[1], mark) /\ ~startsWith(lines[1], header) THEN 1 ELSE 0)
         + countMarked(Tail(lines), mark, header)

\* `+${additions} -${deletions}`
summaryText(additions, deletions) ==
  "+" \o ToString(additions) \o " -" \o ToString(deletions)

summarizeChanges(diffText) ==
  summaryText(countMarked(split(diffText), "+", "+++"),
              countMarked(split(diffText), "-", "---"))

\* the number of lines of the given type in all the hunks
RECURSIVE totalOfType(_, _)
totalOfType(hunks, t) ==
  IF Len(hunks) = 0 THEN 0 ELSE countType(hunks[1].lines, t) + totalOfType(Tail(hunks), t)

\* C21: for the diff text the formatter produces, summarizeChanges reports as
\* added the number of add lines of its hunks and as removed the number of
\* their remove lines, whatever the lines contain; only the two file header
\* lines are left out.
C21_SummaryCountsHunkLines ==
  \A hs \in {generatedHunks} :
    summarizeChanges(join(fileHeader(TargetName) \o formatHunks(hs)))
      = summaryText(totalOfType(hs, "add"), totalOfType(hs, "remove"))

\* the summary is right on texts without lines that start with "--" or "++"
PlainSummary ==
  (Plain(gen.original) /\ Plain(gen.modified)) => C21_SummaryCountsHunkLines

(***************************************************************************)
(* More claims about one apply_patch call                                  *)
(***************************************************************************)
\* the patch has parsed and its target is a file
ParsedOnFile == loc.parsedDiff.ok /\ lookup(fs0, loc.filePath).kind = "file"

\* at least one hunk did not apply
Conflict == \E k \in 1..Len(loc.results) : ~loc.results[k].applied

\* C22: once the patch has parsed and the target file exists, the call ends
\* rejected (a failure, the target not written) exactly when fuzzy is off and
\* at least one hunk conflicts; with fuzzy on the call succeeds however many
\* hunks conflict.
C22_RejectedIff ==
  (Done /\ ParsedOnFile) =>
    /\ (~result.success /\ ~wrote) <=> (~params.fuzzy /\ Conflict)
    /\ result.success <=> ~(~params.fuzzy /\ Conflict)
    /\ params.fuzzy => result.success

C22_Witness ==
  /\ Done /\ ParsedOnFile /\ params.fuzzy
  /\ Len(loc.results) = 2 /\ ~loc.results[1].applied /\ ~loc.results[2].applied
  /\ result.success /\ result.failCount = 2

\* lines is a file that matched hunk exactly at its oldStart, with k lines that
\* are none of the hunk's expected lines inserted after line p, above the hunk
insertedAbove(lines, hunk, k, p) ==
  /\ p + k <= Len(lines) /\ p <= hunk.oldStart - 1
  /\ \A i \in (p + 1)..(p + k) :
       \A j \in 1..Len(expectedLines(hunk, FALSE)) : lines[i] # expectedLines(hunk, FALSE)[j]
  /\ matchesAt(splice(lines, p, k, <<>>), expectedLines(hunk, FALSE), hunk.oldStart - 1)

\* C23: when k lines (k <= 50) unrelated to a hunk are inserted above its
\* recorded position, so that its expected lines sit k lines lower, the hunk
\* applies with fuzzy = true and the result is that of applying it to the
\* unshifted file, with the k lines inserted at the same place: the replacement
\* is made k lines below oldStart, also when the expected lines occur at other
\* places of the window.
C23_FuzzyResilience ==
  (Tried /\ params.fuzzy /\ ~params.reverse /\ Len(hunksOf) = 1
     /\ Len(expectedLines(hunksOf[1], FALSE)) > 0)
    => \A k \in 1..min(searchRange, Len(originalLines)) : \A p \in 0..(hunksOf[1].oldStart - 1) :
         insertedAbove(originalLines, hunksOf[1], k, p)
           => /\ loc.results[1].applied
              /\ loc.modifiedLines =
                   splice(originalLines, hunksOf[1].oldStart - 1 + k,
                          Len(expectedLines(hunksOf[1], FALSE)), newLines(hunksOf[1], FALSE))

\* C25: the file the call reads, copies and writes is the one the '+++' file
\* header of the patch names; no content line of a hunk changes it, an added
\* line whose content starts with "++" included (SpecGen: the header of every
\* generated patch names TargetName).
C25_TargetFromHeader ==
  (Generated /\ pc # "idle" /\ loc.parsedDiff.ok)
    => /\ loc.filePath = TargetName
       /\ \A k \in 1..Len(io) : io[k].path \in {TargetName, backupPathOf(TargetName)}

\* C26: the .bak file is created or overwritten only by a call that goes on to
\* write the target; a call that ends rejected in strict mode leaves the .bak
\* path as it was before the call.
C26_BackupOnlyWithWrite ==
  /\ (Done /\ ~wrote) => backupFile = lookup(fs0, backupPathOf(TargetName))
  /\ (Done /\ ~params.fuzzy /\ Conflict) => ~copied

(***************************************************************************)
(* The at-mention parser (src/unnamed/part_001): parseAtMentions           *)
(***************************************************************************)
\* input[i], i counted from 0
inputAt(input, i) == charAt(input, i + 1)

\* input.substring(from, to), both counted from 0
substr(input, from, to) == SubSeq(input, from + 1, to)

KNOWN_TOOLS == {"canvas", "deepwiki", "websearch", "googlecal", "googledocs", "gmail", "googledrive"}

\* the characters at which a path stops
StopChars == {" ", "\n", "\t", ",", ";", ")", "]", "}"}

lowerChar(c) == CASE c = "A" -> "a" [] c = "C" -> "c" [] c = "G" -> "g" [] OTHER -> c

RECURSIVE toLowerCase(_)
toLowerCase(str) ==
  IF Len(str) = 0 THEN "" ELSE lowerChar(charAt(str, 1)) \o toLowerCase(substring(str, 1))

\* the loop of parseAtMentionAt: [i, path] when it ends
RECURSIVE scanPath(_, _, _)
scanPath(input, i, path) ==
  IF i >= Len(input) THEN [i |-> i, path |-> path]
  ELSE IF inputAt(input, i) = "\\" /\ i + 1 < Len(input) /\ inputAt(input, i + 1) = " "
    THEN scanPath(input, i + 2, path \o " ")
  ELSE IF inputAt(input, i) \in StopChars THEN [i |-> i, path |-> path]
  ELSE IF inputAt(input, i) = "." /\ (i + 1 >= Len(input) \/ inputAt(input, i + 1) = " ")
    THEN [i |-> i, path |-> path]
  ELSE scanPath(input, i + 1, path \o inputAt(input, i))

\* the position (from 1) of the last ':' of path, 0 when it has none
RECURSIVE lastColon(_, _)
lastColon(path, k) ==
  IF k = 0 THEN 0 ELSE IF charAt(path, k) = ":" THEN k ELSE lastColon(path, k - 1)

NoRange == [has |-> FALSE, start |-> 0, end |-> 0, path |-> ""]

\* path.match(/^(.+):(\d+)-(\d+)$/)
lineRangeMatch(path) ==
  LET c == lastColon(path, Len(path))
      d1 == digitsEnd(path, c + 1)
      d2 == digitsEnd(path, d1 + 1)
  IN  IF c > 1 /\ d1 > c + 1 /\ litAt(path, d1, "-") /\ d2 > d1 + 1 /\ d2 = Len(path) + 1
        THEN [has |-> TRUE, start |-> parseInt(SubSeq(path, c + 1, d1 - 1)),
              end |-> parseInt(SubSeq(path, d1 + 1, d2 - 1)), path |-> SubSeq(path, 1, c - 1)]
        ELSE NoRange

\* path.match(/^(.+):(\d+)$/)
singleLineMatch(path) ==
  LET c == lastColon(path, Len(path))
      d1 == digitsEnd(path, c + 1)
  IN  IF c > 1 /\ d1 > c + 1 /\ d1 = Len(path) + 1
        THEN [has |-> TRUE, start |-> parseInt(SubSeq(path, c + 1, d1 - 1)),
              end |-> parseInt(SubSeq(path, c + 1, d1 - 1)), path |-> SubSeq(path, 1, c - 1)]
        ELSE NoRange

\* null
NoAtMention ==
  [ok |-> FALSE, type |-> "", path |-> "", toolName |-> "", lineRange |-> NoRange,
   startIndex |-> 0, endIndex |-> 0, raw |-> ""]

endsWith(str, suffix) ==
  Len(str) >= Len(suffix) /\ SubSeq(str, Len(str) - Len(suffix) + 1, Len(str)) = suffix

parseAtMentionAt(input, startIndex) ==
  IF inputAt(input, startIndex) # "@" THEN NoAtMention
  ELSE
    LET r == scanPath(input, startIndex + 1, "")
        raw == substr(input, startIndex, r.i)
        lowerPath == toLowerCase(r.path)
        range == IF lineRangeMatch(r.path).has THEN lineRangeMatch(r.path)
                 ELSE singleLineMatch(r.path)
        actualPath == IF range.has THEN range.path ELSE r.path
    IN  IF Len(r.path) = 0 THEN NoAtMention
        ELSE IF lowerPath \in KNOWN_TOOLS
          THEN [ok |-> TRUE, type |-> "tool", path |-> "", toolName |-> lowerPath,
                lineRange |-> NoRange, startIndex |-> startIndex, endIndex |-> r.i, raw |-> raw]
        ELSE [ok |-> TRUE, type |-> IF endsWith(actualPath, "/") THEN "directory" ELSE "file",
              path |-> actualPath, toolName |-> "",
              lineRange |-> [range EXCEPT !.path = ""],
              startIndex |-> startIndex, endIndex |-> r.i, raw |-> raw]

\* input[i] === '@' && (i === 0 || input[i - 1] !== '\\')
isUnescapedAt_NoEscape(input, i) == inputAt(input, i) = "@"
isUnescapedAt(input, i) ==
  inputAt(input, i) = "@" /\ (i = 0 \/ inputAt(input, i - 1) # "\\")

\* the while loop of parseAtMentions
RECURSIVE scanMentions(_, _, _)
scanMentions(input, i, mentions) ==
  IF i >= Len(input) THEN mentions
  ELSE IF isUnescapedAt(input, i) THEN
    LET m == parseAtMentionAt(input, i)
    IN  IF m.ok THEN scanMentions(input, m.endIndex, Append(mentions, m))
        ELSE scanMentions(input, i + 1, mentions)
  ELSE scanMentions(input, i + 1, mentions)

parseAtMentions(input) == scanMentions(input, 0, <<>>)

\* the pieces the inputs are put together from
MaxPieces == 4
Pieces == {"@", "@a", "\\", " ", "a", ".", ",", ":1", "-2", "/", "Gmail"}

RECURSIVE concat(_)
concat(ps) == IF Len(ps) = 0 THEN "" ELSE ps[1] \o concat(Tail(ps))

MentionInputs == {concat(ps) : ps \in SeqsUpTo(Pieces, MaxPieces)}

\* a call of parseAtMentions
ParseAtMentions ==
  /\ ~mention.done
  /\ mention' = [mention EXCEPT !.done = TRUE, !.mentions = parseAtMentions(mention.input)]
  /\ UNCHANGED <<fs, fs0, gen, patch, params, pc, loc, io, result, chat>>

InitMention ==
  /\ mention \in {[NoMentions EXCEPT !.input = inp] : inp \in MentionInputs}
  /\ fs = InitFs("", Missing)
  /\ fs0 = fs
  /\ gen = NoGen
  /\ patch = ""
  /\ params = DefaultParams
  /\ pc = "none"
  /\ loc = NoLoc
  /\ io = <<>>
  /\ result = NoResult
  /\ chat = NoChat

NextMention == ParseAtMentions

SpecMention == InitMention /\ [][NextMention]_vars

\* the number of spaces of str
spacesIn(str) == Cardinality({j \in 1..Len(str) : charAt(str, j) = " "})

\* the number of backslash-space pairs of str
escapedSpacesIn(str) ==
  Cardinality({j \in 1..(Len(str) - 1) : charAt(str, j) = "\\" /\ charAt(str, j + 1) = " "})

\* str with every backslash-space pair replaced by a space
RECURSIVE unescaped(_)
unescaped(str) ==
  IF Len(str) = 0 THEN ""
  ELSE IF Len(str) >= 2 /\ SubSeq(str, 1, 2) = "\\ " THEN " " \o unescaped(substring(str, 2))
  ELSE charAt(str, 1) \o unescaped(substring(str, 1))

\* no path character follows the '@' at position i
noPathAfter(input, i) ==
  \/ i + 1 >= Len(input)
  \/ inputAt(input, i + 1) \in StopChars
  \/ inputAt(input, i + 1) = "." /\ (i + 2 >= Len(input) \/ inputAt(input, i + 2) = " ")

\* C24: the mentions parseAtMentions returns are in strictly increasing
\* startIndex order and their ranges [startIndex, endIndex) do not overlap; each
\* starts at an '@' that no backslash precedes; an '@' that no path character
\* follows starts none; every backslash-space pair of a mention is a space of
\* its path; raw is the input from startIndex to endIndex.
C24_AtMentions ==
  mention.done =>
    \A ms \in {mention.mentions} : \A input \in {mention.input} :
      /\ \A k \in 1..Len(ms) :
           /\ 0 <= ms[k].startIndex /\ ms[k].startIndex < ms[k].endIndex
           /\ ms[k].endIndex <= Len(input)
           /\ inputAt(input, ms[k].startIndex) = "@"
           /\ ms[k].startIndex > 0 => inputAt(input, ms[k].startIndex - 1) # "\\"
           /\ ms[k].raw = substr(input, ms[k].startIndex, ms[k].endIndex)
           /\ spacesIn(IF ms[k].type = "tool" THEN ms[k].toolName ELSE ms[k].path)
                = escapedSpacesIn(ms[k].raw)
           /\ (ms[k].type # "tool" /\ ~ms[k].lineRange.has)
                => ms[k].path = unescaped(substring(ms[k].raw, 1))
      /\ \A k \in 1..(Len(ms) - 1) :
           /\ ms[k].startIndex < ms[k + 1].startIndex
           /\ ms[k].endIndex <= ms[k + 1].startIndex
      /\ \A i \in 0..(Len(input) - 1) :
           (inputAt(input, i) = "@" /\ noPathAfter(input, i))
             => \A k \in 1..Len(ms) : ms[k].startIndex # i

C24_Witness ==
  /\ mention.done
  /\ Len(mention.mentions) = 2
  /\ mention.mentions[1].lineRange.has
  /\ mention.mentions[1].endIndex < mention.mentions[2].startIndex

(***************************************************************************)
(* The edit_file tool (src/src/tools/file/edit-file.ts), cut at its awaits *)
(***************************************************************************)
Edit(s, e, c) == [start_line |-> s, end_line |-> e, new_content |-> c]

\* edit put into a list sorted by start_line, after the edits with the same start_line
RECURSIVE insertEdit(_, _)
insertEdit(sorted, edit) ==
  IF Len(sorted) = 0 THEN <<edit>>
  ELSE IF sorted[1].start_line <= edit.start_line
    THEN <<sorted[1]>> \o insertEdit(Tail(sorted), edit)
    ELSE <<edit>> \o sorted

\* [...edits].sort((a, b) => a.start_line - b.start_line)
RECURSIVE sortEdits(_)
sortEdits(edits) ==
  IF Len(edits) = 0 THEN <<>>
  ELSE insertEdit(sortEdits(SubSeq(edits, 1, Len(edits) - 1)), edits[Len(edits)])

\* edit.start_line < 1, edit.end_line < edit.start_line
badRange(edit) == edit.start_line < 1 \/ edit.end_line < edit.start_line

\* sortedEdits[i].end_line >= sortedEdits[i + 1].start_line
overlaps_Strict(a, b) == a.end_line > b.start_line
overlaps(a, b) == a.end_line >= b.start_line

\* edit.end_line > lines.length
exceedsFile(edit, lines) == edit.end_line > Len(lines)

\* const endIdx = edit.end_line
endIdx_Exclusive(edit) == edit.end_line - 1
endIdx(edit) == edit.end_line

\* the loop "for (let i = sortedEdits.length - 1; i >= 0; i--)", i counted from 1
RECURSIVE applyEdits(_, _, _)
applyEdits(modifiedLines, sortedEdits, i) ==
  IF i = 0 THEN modifiedLines
  ELSE applyEdits(splice(modifiedLines, sortedEdits[i].start_line - 1,
                         endIdx(sortedEdits[i]) - (sortedEdits[i].start_line - 1),
                         split(sortedEdits[i].new_content)),
                  sortedEdits, i - 1)

\* { success: true, output }: the number of edits and the diff
EditSuccess(l, n) ==
  [returned |-> TRUE, success |-> TRUE, error |-> "",
   successCount |-> n, failCount |-> 0, hasPreview |-> TRUE, preview |-> l.previewDiff]

\* from the entry to the end of readFile and of the validation of the line ranges
EditFile ==
  /\ pc = "edit"
  /\ \E sortedEdits \in {sortEdits(params.edits)} :
     \E file \in {lookup(fs, params.path)} :
         IF ~existsSync(fs, params.path) THEN
           /\ result' = Failure("File not found")
           /\ pc' = "done" /\ loc' = loc
         ELSE IF \E k \in 1..Len(params.edits) : badRange(params.edits[k]) THEN
           /\ result' = Failure("Invalid line range")
           /\ pc' = "done" /\ loc' = loc
         ELSE IF \E i \in 1..(Len(sortedEdits) - 1) : overlaps(sortedEdits[i], sortedEdits[i + 1]) THEN
           /\ result' = Failure("Overlapping edits detected")
           /\ pc' = "done" /\ loc' = loc
         ELSE IF file.kind = "dir" THEN
           /\ result' = Failure("EISDIR")
           /\ pc' = "done" /\ loc' = loc
         ELSE IF \E k \in 1..Len(params.edits) : exceedsFile(params.edits[k], split(file.content)) THEN
           /\ result' = Failure("Line exceeds file length")
           /\ pc' = "done"
           /\ loc' = [loc EXCEPT !.filePath = params.path, !.originalContent = file.content]
         ELSE
           /\ result' = result
           /\ pc' = IF params.backup THEN "editBackup" ELSE "editWrite"
           /\ loc' = [loc EXCEPT !.filePath = params.path, !.originalContent = file.content]
  /\ fs0' = fs
  /\ UNCHANGED <<fs, gen, patch, params, io>>
  /\ UNCHANGED others

\* await copyFile(absolutePath, backupPath)
EditCopyBackup ==
  /\ pc = "editBackup"
  /\ fs' = put(fs, backupPathOf(loc.filePath), lookup(fs, loc.filePath))
  /\ io' = Append(io, [op |-> "copyFile", path |-> backupPathOf(loc.filePath)])
  /\ pc' = "editWrite"
  /\ UNCHANGED <<fs0, gen, patch, params, loc, result>>
  /\ UNCHANGED others

\* the edits applied from the last to the first, writeFile, the diff and the return
EditWrite ==
  /\ pc = "editWrite"
  /\ \E sortedEdits \in {sortEdits(params.edits)} :
     \E modifiedLines \in {applyEdits(split(loc.originalContent), sortedEdits, Len(sortedEdits))} :
     \E done \in {[loc EXCEPT !.modifiedLines = modifiedLines,
                              !.modifiedContent = join(modifiedLines),
                              !.previewDiff = createUnifiedDiff(loc.originalContent,
                                                                join(modifiedLines), params.path,
                                                                DefaultContextLines)]} :
       /\ fs' = put(fs, loc.filePath, File(done.modifiedContent))
       /\ io' = Append(io, [op |-> "writeFile", path |-> loc.filePath])
       /\ loc' = done
       /\ result' = EditSuccess(done, Len(params.edits))
  /\ pc' = "done"
  /\ UNCHANGED <<fs0, gen, patch, params>>
  /\ UNCHANGED others

\* the files edited: the first n of these lines
MaxEditLines == 3
EditLines == <<"a", "b", "c", "d", "e", "f">>
EditTexts == {join(SubSeq(EditLines, 1, n)) : n \in 1..MaxEditLines}

\* line numbers from 0 to one past the longest file; replacements of 1, 2 lines and ""
EditSet ==
  {Edit(st, en, c) : st \in 0..(MaxEditLines + 1), en \in 0..(MaxEditLines + 1),
                     c \in {"x", "y\nz", ""}}
EditLists == {<<e>> : e \in EditSet} \cup {<<pr[1], pr[2]>> : pr \in EditSet \X EditSet}

\* edit_file called with one or two edits on a file of 1 to MaxEditLines lines,
\* or on a path that does not exist
InitEdit ==
  /\ \/ \E t \in EditTexts, bak \in {Missing, File("old")} : fs = InitFs(t, bak)
     \/ fs = put(InitFs("", Missing), TargetName, Missing)
  /\ fs0 = fs
  /\ gen = NoGen
  /\ patch = ""
  /\ params \in [path : {TargetName}, edits : EditLists, backup : BOOLEAN]
  /\ pc = "edit"
  /\ loc = NoLoc
  /\ io = <<>>
  /\ result = NoResult
  /\ mention = NoMentions
  /\ chat = NoChat

NextEdit == EditFile \/ EditCopyBackup \/ EditWrite

SpecEdit == InitEdit /\ [][NextEdit]_vars

(***************************************************************************)
(* Claims about edit_file (SpecEdit)                                       *)
(***************************************************************************)
\* the lines of the file when the call started
linesBefore == split(lookup(fs0, TargetName).content)
OnFile == lookup(fs0, TargetName).kind = "file"

\* every edit names a range of lines of a file of n lines
inRange(edits, n) ==
  \A k \in 1..Len(edits) :
    1 <= edits[k].start_line /\ edits[k].start_line <= edits[k].end_line /\ edits[k].end_line <= n

\* two edits of the list share a line
shareLine(edits) ==
  \E i, j \in 1..Len(edits) :
    i < j /\ edits[i].start_line <= edits[j].end_line /\ edits[j].start_line <= edits[i].end_line

\* lines from line i on, with each range of edits replaced by its new_content
RECURSIVE replaced(_, _, _)
replaced(lines, edits, i) ==
  IF i > Len(lines) THEN <<>>
  ELSE IF \E k \in 1..Len(edits) : edits[k].start_line = i
    THEN LET e == edits[CHOOSE k \in 1..Len(edits) : edits[k].start_line = i]
         IN  split(e.new_content) \o replaced(lines, edits, e.end_line + 1)
    ELSE <<lines[i]>> \o replaced(lines, edits, i + 1)

\* the list in the opposite order
reversed(list) == [k \in 1..Len(list) |-> list[Len(list) + 1 - k]]

\* C27: the line numbers of all the edits of a call refer to the file as it was
\* before the call: for valid edits that share no line the call succeeds and the
\* file then holds the original with each range replaced by its new_content,
\* in whatever order the edits are listed and also when a replacement has more
\* or fewer lines than its range.
C27_EditsAgainstOriginal ==
  (Done /\ OnFile /\ inRange(params.edits, Len(linesBefore)) /\ ~shareLine(params.edits))
    => /\ result.success
       /\ target = File(join(replaced(linesBefore, params.edits, 1)))
       /\ loc.modifiedLines =
            applyEdits(linesBefore, sortEdits(reversed(params.edits)), Len(params.edits))

C27_Witness ==
  /\ Done /\ result.success /\ Len(params.edits) = 2
  /\ params.edits[1].start_line > params.edits[2].start_line
  /\ params.edits[1].end_line > params.edits[1].start_line
  /\ params.edits[2].new_content = "y\nz"
  /\ target = File("y\nz\nx")

\* C28: if an edit has start_line < 1, end_line < start_line or end_line beyond
\* the last line of the file, or two edits share a line, the call returns a
\* failure and applies no edit: the file and its .bak are as before the call,
\* nothing is copied or written.
C28_AllOrNothing ==
  (OnFile /\ (~inRange(params.edits, Len(linesBefore)) \/ shareLine(params.edits)))
    => /\ fs = fs0 /\ io = <<>>
       /\ pc \in {"edit", "done"}
       /\ Done => (result.returned /\ ~result.success)

C28_Witness ==
  /\ Done /\ OnFile /\ params.backup /\ ~result.success
  /\ Len(params.edits) = 2
  /\ inRange(<<params.edits[1]>>, Len(linesBefore))
  /\ params.edits[2].start_line = Len(linesBefore) /\ params.edits[2].end_line > Len(linesBefore)
  /\ ~shareLine(params.edits)
  /\ backupFile = File("old")

\* ---------------------------------------------------------------------------
\* search_replace
\* ---------------------------------------------------------------------------

\* how a pattern is matched: dot = "." stands for any character but a line end
\* (a regex search), fold = the i flag, word = the pattern is wrapped in \b
Mode(regex, case_sensitive, match_whole_word) ==
  IF regex THEN [dot |-> TRUE, fold |-> ~case_sensitive, word |-> FALSE]
  ELSE IF ~case_sensitive THEN [dot |-> FALSE, fold |-> TRUE, word |-> FALSE]
  ELSE IF match_whole_word THEN [dot |-> FALSE, fold |-> FALSE, word |-> TRUE]
  ELSE [dot |-> FALSE, fold |-> FALSE, word |-> FALSE]

\* new RegExp(search, flags) throws on an unbalanced group
regexThrows(search) == \E k \in 1..Len(search) : charAt(search, k) = "("

\* \w
IsWordChar(c) == c \in {"a", "b", "c", "A", "B", "C", "_"} \/ IsDigit(c)

\* \b between the characters p - 1 and p of text (1-based)
wordBoundary(text, p) ==
  (p > 1 /\ IsWordChar(charAt(text, p - 1))) # (p <= Len(text) /\ IsWordChar(charAt(text, p)))

\* one character of the pattern against one character of the text
charMatches(pch, tch, mode) ==
  \/ mode.dot /\ pch = "." /\ tch # "\n"
  \/ IF mode.fold THEN lowerChar(pch) = lowerChar(tch) ELSE pch = tch

\* the pattern matches the text at position i (1-based)
patternAt(text, i, search, mode) ==
  /\ i + Len(search) - 1 <= Len(text)
  /\ \A k \in 1..Len(search) : charMatches(charAt(search, k), charAt(text, i + k - 1), mode)
  /\ mode.word => wordBoundary(text, i) /\ wordBoundary(text, i + Len(search))

\* the matches from the left, none overlapping another: String.prototype.match
\* and replace with a g pattern, and split(search) followed by join(replace)
RECURSIVE replaceFrom(_, _, _, _, _, _)
replaceFrom(text, i, search, replace, mode, acc) ==
  IF i > Len(text) THEN acc
  ELSE IF patternAt(text, i, search, mode)
    THEN replaceFrom(text, i + Len(search), search, replace, mode,
                     [matchCount |-> acc.matchCount + 1,
                      modifiedContent |-> acc.modifiedContent \o replace])
    ELSE replaceFrom(text, i + 1, search, replace, mode,
                     [acc EXCEPT !.modifiedContent = @ \o charAt(text, i)])

replaceAll(text, p) ==
  replaceFrom(text, 1, p.search, p.replace,
              Mode(p.regex, p.case_sensitive, p.match_whole_word),
              [matchCount |-> 0, modifiedContent |-> ""])

\* if (backup)
searchBackup(p, originalContent) == p.backup

\* { success: true, output: `No matches found for: "${search}"` }
NoMatchesFound ==
  [returned |-> TRUE, success |-> TRUE, error |-> "", successCount |-> 0,
   failCount |-> 0, hasPreview |-> FALSE, preview |-> "No matches found"]

\* { success: true, output: `Modified ...: ${matchCount} replacement(s) made ...` }
Replaced(l, matchCount) ==
  [returned |-> TRUE, success |-> TRUE, error |-> "", successCount |-> matchCount,
   failCount |-> 0, hasPreview |-> TRUE, preview |-> l.previewDiff]

\* execute, from its entry to the end of readFile
SearchReplace ==
  /\ pc = "search"
  /\ \E file \in {lookup(fs, params.path)} :
       IF ~existsSync(fs, params.path) THEN
         /\ result' = Failure("File not found")
         /\ pc' = "done" /\ loc' = loc
       ELSE IF file.kind = "dir" THEN
         /\ result' = Failure("EISDIR")
         /\ pc' = "done" /\ loc' = loc
       ELSE
         /\ result' = result
         /\ pc' = IF searchBackup(params, file.content) THEN "searchBackup" ELSE "searchWrite"
         /\ loc' = [loc EXCEPT !.filePath = params.path, !.originalContent = file.content]
  /\ fs0' = fs
  /\ UNCHANGED <<fs, gen, patch, params, io>>
  /\ UNCHANGED others

\* await copyFile(absolutePath, backupPath)
SearchCopyBackup ==
  /\ pc = "searchBackup"
  /\ fs' = put(fs, backupPathOf(loc.filePath), lookup(fs, loc.filePath))
  /\ io' = Append(io, [op |-> "copyFile", path |-> backupPathOf(loc.filePath)])
  /\ pc' = "searchWrite"
  /\ UNCHANGED <<fs0, gen, patch, params, loc, result>>
  /\ UNCHANGED others

\* the replacement, the matchCount test, writeFile, the diff and the return
SearchWrite ==
  /\ pc = "searchWrite"
  /\ IF params.regex /\ regexThrows(params.search) THEN
       /\ result' = Failure("Invalid regular expression")
       /\ UNCHANGED <<fs, io, loc>>
     ELSE
       \E r \in {replaceAll(loc.originalContent, params)} :
         IF r.matchCount = 0 THEN
           /\ result' = NoMatchesFound
           /\ loc' = [loc EXCEPT !.modifiedContent = r.modifiedContent]
           /\ UNCHANGED <<fs, io>>
         ELSE
           \E done \in {[loc EXCEPT !.modifiedContent = r.modifiedContent,
                                    !.successCount = r.matchCount,
                                    !.previewDiff = createUnifiedDiff(loc.originalContent,
                                                                      r.modifiedContent, params.path,
                                                                      DefaultContextLines)]} :
             /\ fs' = put(fs, loc.filePath, File(r.modifiedContent))
             /\ io' = Append(io, [op |-> "writeFile", path |-> loc.filePath])
             /\ loc' = done
             /\ result' = Replaced(done, r.matchCount)
  /\ pc' = "done"
  /\ UNCHANGED <<fs0, gen, patch, params>>
  /\ UNCHANGED others

\* the files searched: up to MaxSearchPieces of these pieces
MaxSearchPieces == 3
SearchPieces == {"a", "A", "b", " "}
SearchTexts == {concat(ps) : ps \in SeqsUpTo(SearchPieces, MaxSearchPieces)}

\* searches that are not empty: a letter, two letters, a capital, the regex
\* wildcard and a pattern that is no regular expression
Searches == {"a", "ab", "A", "c", ".", "("}

\* search_replace called on a file, with or without an older backup beside it,
\* or on a path that does not exist
InitSearch ==
  /\ \/ \E t \in SearchTexts, bak \in {Missing, File("old")} : fs = InitFs(t, bak)
     \/ fs = put(InitFs("", Missing), TargetName, Missing)
  /\ fs0 = fs
  /\ gen = NoGen
  /\ patch = ""
  /\ params \in [path : {TargetName}, search : Searches, replace : {"x", ""},
                 regex : BOOLEAN, case_sensitive : BOOLEAN,
                 match_whole_word : BOOLEAN, backup : BOOLEAN]
  /\ pc = "search"
  /\ loc = NoLoc
  /\ io = <<>>
  /\ result = NoResult
  /\ mention = NoMentions
  /\ chat = NoChat

NextSearch == SearchReplace \/ SearchCopyBackup \/ SearchWrite

SpecSearch == InitSearch /\ [][NextSearch]_vars

\* the search has no match in the file the call read
zeroMatches ==
  /\ ~(params.regex /\ regexThrows(params.search))
  /\ \A k \in 1..Len(loc.originalContent) :
       ~patternAt(loc.originalContent, k, params.search,
                  Mode(params.regex, params.case_sensitive, params.match_whole_word))

\* C29: a search_replace call whose search has no match returns success with
\* 'No matches found' and leaves the disk as it was: the target is not written
\* and no .bak file is created or overwritten.
C29_ZeroMatchesNoDiskChange ==
  (pc = "done" /\ fs0[TargetName].kind = "file" /\ zeroMatches)
    => /\ result = NoMatchesFound
       /\ fs = fs0
       /\ io = <<>>

\* the same without the backup option: only the target is at stake
C29_NoBackupOption ==
  (pc = "done" /\ fs0[TargetName].kind = "file" /\ zeroMatches /\ ~params.backup)
    => /\ result = NoMatchesFound
       /\ fs = fs0
       /\ io = <<>>


\* ---------------------------------------------------------------------------
\* AgentController.chat and ConversationManager
\* ---------------------------------------------------------------------------

\* the history keeps the last maxMessages messages (100 in the source) and a
\* chat call makes at most maxIterations requests (10 in the source); the
\* agent is called MaxChats times
maxMessages == 6
maxIterations == 3
MaxChats == 3

\* content blocks; a message whose content is a string is one text block
TextBlock == [type |-> "text", id |-> 0, is_error |-> FALSE]
ToolUseBlock(id) == [type |-> "tool_use", id |-> id, is_error |-> FALSE]
ToolResultBlock(id, is_error) == [type |-> "tool_result", id |-> id, is_error |-> is_error]

Message(role, content) == [role |-> role, content |-> content]

\* this.messages.slice(-this.maxMessages)
sliceLast(messages, n) ==
  IF Len(messages) <= n THEN messages
  ELSE SubSeq(messages, Len(messages) - n + 1, Len(messages))

\* ConversationManager.addMessage
addMessage(messages, message) ==
  IF Len(messages) + 1 > maxMessages
    THEN sliceLast(Append(messages, message), maxMessages)
    ELSE Append(messages, message)

\* the tool_use blocks of a response, in their order
toolUsesOf(content) == SelectSeq(content, LAMBDA b : b.type = "tool_use")

\* the responses of the model: one or two blocks, tool_use ids never seen before
Shapes == {<<"text">>, <<"tool_use">>, <<"text", "tool_use">>, <<"tool_use", "tool_use">>}
StopReasons == {"end_turn", "tool_use", "max_tokens"}

RECURSIVE blocksOf(_, _)
blocksOf(shape, lastId) ==
  IF Len(shape) = 0 THEN <<>>
  ELSE IF Head(shape) = "text" THEN <<TextBlock>> \o blocksOf(Tail(shape), lastId)
  ELSE <<ToolUseBlock(lastId + 1)>> \o blocksOf(Tail(shape), lastId + 1)

\* chat(userMessage), to the first test of the loop
Chat ==
  /\ pc = "chatIdle"
  /\ chat.calls < MaxChats
  /\ chat' = [chat EXCEPT !.messages = addMessage(@, Message("user", <<TextBlock>>)),
                          !.continueLoop = TRUE,
                          !.iterationCount = 0,
                          !.calls = @ + 1]
  /\ pc' = "chatLoop"
  /\ UNCHANGED <<fs, fs0, gen, patch, params, loc, io, result, mention>>

\* while (continueLoop && iterationCount < maxIterations): the request is sent
\* with this.conversation.getMessages()
ChatRequest ==
  /\ pc = "chatLoop"
  /\ chat.continueLoop /\ chat.iterationCount < maxIterations
  /\ chat' = [chat EXCEPT !.iterationCount = @ + 1,
                          !.sent = chat.messages,
                          !.requests = @ + 1]
  /\ pc' = "chatAwait"
  /\ UNCHANGED <<fs, fs0, gen, patch, params, loc, io, result, mention>>

\* the loop ends: yield { type: 'done' }
ChatDone ==
  /\ pc = "chatLoop"
  /\ ~(chat.continueLoop /\ chat.iterationCount < maxIterations)
  /\ pc' = "chatIdle"
  /\ UNCHANGED <<chat, fs, fs0, gen, patch, params, loc, io, result, mention>>

\* client.messages.create rejects: the catch of chat yields an error
ChatApiError ==
  /\ pc = "chatAwait"
  /\ pc' = "chatIdle"
  /\ UNCHANGED <<chat, fs, fs0, gen, patch, params, loc, io, result, mention>>

\* the end of one turn of the loop: if (response.stop_reason === 'end_turn')
endOfIteration(c, continueLoop) ==
  [c EXCEPT !.continueLoop = IF c.response.stop_reason = "end_turn" THEN FALSE ELSE continueLoop]

\* the response arrives: its blocks are read and it is added to the history
ChatResponse ==
  /\ pc = "chatAwait"
  /\ \E shape \in Shapes, stop_reason \in StopReasons :
     \E content \in {blocksOf(shape, chat.lastId)} :
     \E got \in {[chat EXCEPT !.response = [content |-> content, stop_reason |-> stop_reason],
                              !.toolUses = toolUsesOf(content),
                              !.toolResults = <<>>,
                              !.lastId = @ + Len(toolUsesOf(content)),
                              !.messages = addMessage(@, Message("assistant", content))]} :
       IF Len(got.toolUses) > 0
         THEN chat' = got /\ pc' = "chatTool"
         ELSE chat' = endOfIteration(got, FALSE) /\ pc' = "chatLoop"
  /\ UNCHANGED <<fs, fs0, gen, patch, params, loc, io, result, mention>>

\* one tool of toolUses has run: it returned a result or it threw; after the
\* last one the results are added to the history
ExecuteTool ==
  /\ pc = "chatTool"
  /\ \E is_error \in BOOLEAN :
     \E toolUse \in {chat.toolUses[Len(chat.toolResults) + 1]} :
     \E toolResults \in {Append(chat.toolResults, ToolResultBlock(toolUse.id, is_error))} :
       IF Len(toolResults) < Len(chat.toolUses)
         THEN /\ chat' = [chat EXCEPT !.toolResults = toolResults]
              /\ pc' = "chatTool"
         ELSE /\ chat' = endOfIteration([chat EXCEPT !.toolResults = toolResults,
                                                     !.messages = addMessage(@, Message("user", toolResults))],
                                        TRUE)
              /\ pc' = "chatLoop"
  /\ UNCHANGED <<fs, fs0, gen, patch, params, loc, io, result, mention>>

\* a new AgentController, no file tool running
InitChat ==
  /\ fs = InitFs("", Missing)
  /\ fs0 = fs
  /\ gen = NoGen
  /\ patch = ""
  /\ params = DefaultParams
  /\ pc = "chatIdle"
  /\ loc = NoLoc
  /\ io = <<>>
  /\ result = NoResult
  /\ mention = NoMentions
  /\ chat = NoChat

NextChat == Chat \/ ChatRequest \/ ChatDone \/ ChatApiError \/ ChatResponse \/ ExecuteTool

SpecChat == InitChat /\ [][NextChat]_vars

\* the ids of the blocks of one type in a message, in their order
idsOf(message, type) ==
  [k \in 1..Len(SelectSeq(message.content, LAMBDA b : b.type = type)) |->
     SelectSeq(message.content, LAMBDA b : b.type = type)[k].id]

carriesToolResults(message) ==
  message.role = "user" /\ \E k \in 1..Len(message.content) : message.content[k].type = "tool_result"

\* each message with tool_result blocks comes right after the assistant message
\* with the tool_use blocks of the same ids in the same order
paired(messages) ==
  \A i \in 1..Len(messages) :
    carriesToolResults(messages[i])
      => /\ i > 1
         /\ messages[i - 1].role = "assistant"
         /\ idsOf(messages[i - 1], "tool_use") = idsOf(messages[i], "tool_result")

\* C30: in every list of messages sent to the model, each user message with
\* tool_result blocks is immediately preceded by the assistant message whose
\* tool_use blocks have exactly those ids, one result per tool_use, in order.
C30_ToolResultsPaired == chat.requests > 0 => paired(chat.sent)

\* the same for the lists that do not begin with a tool_result message: the
\* pairing is lost by nothing but the cut at maxMessages
C30_PairedFromUserText ==
  (chat.requests > 0 /\ ~carriesToolResults(chat.sent[1])) => paired(chat.sent)

====
